---- MODULE Spec2Model ----
(***************************************************************************)
(* hivemind_tasks: the coordinator-side task registry and dispatcher       *)
(* (TaskFeature, hivemind_tasks/__init__.py) over the TaskRegister table   *)
(* (hivemind_tasks/tables.py).                                             *)
(*                                                                         *)
(* Spec      the three wire handlers, one action per handled request (an   *)
(*           aiohttp handler body holds no await after request.json(), so  *)
(*           it runs to completion on the event loop), and the controller  *)
(*           dispatcher draining the forward queue.                        *)
(* SpecLock  the register / deregister handlers run by concurrent workers, *)
(*           split at every database call, with the feature lock.          *)
(* SpecNode  a TaskNode (hivemind_tasks/tasknode.py) from construction to  *)
(*           shutdown, its calls handled by the coordinator as it makes    *)
(*           them; SpecNodeFair adds that a loop iteration ends.           *)
(*                                                                         *)
(* Python asserts are taken as enabled (no -O): a failed assert raises.    *)
(***************************************************************************)
EXTENDS Integers, Sequences, FiniteSets, TLC

VARIABLES
    known,      \* names of the rows of NodeRegister (nodes the controller knows)
    registry,   \* the rows of the TaskRegister table
    queue,      \* forwards handed to controller.dispatch_one, not yet sent
    delivery,   \* what became of the last forward a dispatcher sent
    last,       \* the last request handled: payload, outcome, response
    pre,        \* the TaskRegister rows as they were when that request arrived
    gone,       \* Spec: the pairs deregistered and not registered again since
    pc,         \* SpecLock: each worker's position in its handler
    req,        \* SpecLock: the payload each worker is handling
    found,      \* SpecLock: the row each worker's deregister query returned
    wres,       \* SpecLock: how each worker's last request ended
    lock,       \* SpecLock: TaskFeature.lock's holder
    feature,    \* global_settings.feature_enabled('hivemind_tasks')
    nphase,     \* SpecNode: where the TaskNode is in its life
    nname,      \* the node's name (_Node.name)
    _config,    \* TaskNode._config
    _valid,     \* TaskNode._valid
    _tasks,     \* TaskNode._tasks
    _errors,    \* TaskNode._errors
    _warnings,  \* TaskNode._warnings
    idx,        \* the place of a for loop over _tasks
    endpoints,  \* handler_class.endpoints: the (endpoint, task name) pairs bound
    calls,      \* the RootController._register_post calls made so far, in order
    verifies,   \* how many times verify_config has run
    creates,    \* how many times create_tasks has run
    nraised     \* the exception that ended the node's last operation, or "none"

handlerVars == <<pc, req, found, wres, lock>>
nodeVars == <<feature, nphase, nname, _config, _valid, _tasks, _errors, _warnings,
              idx, endpoints, calls, verifies, creates, nraised>>
vars == <<known, registry, queue, delivery, last, pre, gone, handlerVars, nodeVars>>

---------------------------------------------------------------------------
(* Bounds of the model *)

\* most forwards waiting in the controller's dispatch queue
MaxQueue == 1
\* the count of consecutive identical register calls saturates here
MaxRun == 3

NodeNames == {"n1", "n2"}
\* the nodes that have registered with the controller (rows of NodeRegister)
KnownNodes == {"n1"}
TaskNames == {"t1", "t2"}
Params == {"{}", "{a:1}"}
Workers == {"w1", "w2"}

---------------------------------------------------------------------------
(* Program constants and values *)

\* a key that the JSON payload does not hold
Absent == "<absent>"
\* RootController.NODE_TERM / NODE_ONLINE, the status markers of a payload
NODE_TERM == "term"
NODE_ONLINE == "online"
kRequest == "request"
kCron == "cron"
kTaskTypes == {kRequest, kCron}
Port == "9999"
\* TaskRegister.state's default
StatePending == "pending"

\* an endpoint that leaves out the task's name
endpoint_node_only(node, name) == "/task/" \o node

\* _Task.endpoint: f'/task/{self.node.name}/{self.name}'
endpoint(node, name) == "/task/" \o node \o "/" \o name
\* an endpoint string that is not the one a _Task derives
OtherEndpoint == "/task/moved"

\* the responses of the handlers
ResultTrue == "{result: true}"
task_required_data == "{}"
NoResponse == "<exception>"

NoOwner == "<free>"

---------------------------------------------------------------------------
(* Payloads: a JSON body, each key present with a value or Absent.  dict is *)
(* FALSE for a JSON body that is not an object.                            *)

Payload(d, n, t, ty, e, p, s, ps) ==
    [dict |-> d, node |-> n, name |-> t, type |-> ty, endpoint |-> e,
     port |-> p, status |-> s, parameters |-> ps]

NotADict == Payload(FALSE, Absent, Absent, Absent, Absent, Absent, Absent, Absent)

Drop(payload, k) == [payload EXCEPT ![k] = Absent]

RegisterRequired == {"node", "name", "type", "endpoint", "port"}
DeregisterRequired == {"node", "name"}
\* a required tuple that leaves out the parameters
ExecuteRequired_no_parameters == {"node", "name"}
ExecuteRequired == {"node", "name", "parameters"}

\* what TaskNode.register_task sends for a task of the node
RegisterBody(n, t, ty) == Payload(TRUE, n, t, ty, endpoint(n, t), Port, NODE_ONLINE, Absent)

\* bodies POSTed to /register/task that take the register path: those a node
\* sends, for task t1 the same with another type or naming another endpoint,
\* and one without a status key
RegisterBodies ==
    { RegisterBody(n, t, kRequest) : n \in NodeNames, t \in TaskNames }
    \cup { RegisterBody(n, "t1", kCron) : n \in KnownNodes }
    \cup { [RegisterBody(n, "t1", ty) EXCEPT !.endpoint = OtherEndpoint] :
             n \in KnownNodes, ty \in kTaskTypes }
    \cup { Drop(RegisterBody(n, "t1", kRequest), "status") : n \in KnownNodes }

\* what TaskNode.deregister_task sends
DeregisterBody(n, t) == Payload(TRUE, n, t, Absent, Absent, Absent, NODE_TERM, Absent)

\* bodies of status NODE_TERM: those a node sends, and a whole register body
DeregisterBodies ==
    { DeregisterBody(n, t) : n \in NodeNames, t \in TaskNames }
    \cup { [RegisterBody(n, t, kRequest) EXCEPT !.status = NODE_TERM] :
             n \in KnownNodes, t \in TaskNames }

ExecuteBody(n, t, ps) == Payload(TRUE, n, t, Absent, Absent, Absent, Absent, ps)

ExecuteBodies == { ExecuteBody(n, t, ps) : n \in NodeNames, t \in TaskNames, ps \in Params }

\* every body POSTed to /register/task
RegisterRequests ==
    RegisterBodies \cup DeregisterBodies
    \cup { Drop(RegisterBody(n, "t1", kRequest), k) : n \in KnownNodes,
             k \in {"node", "name", "type", "endpoint", "port"} }
    \cup { Drop(DeregisterBody(n, "t1"), k) : n \in KnownNodes,
             k \in {"node", "name"} }
    \cup {NotADict}

\* every body POSTed to /tasks/execute
ExecuteRequests ==
    ExecuteBodies
    \cup { Drop(ExecuteBody(n, "t1", "{}"), k) : n \in KnownNodes,
             k \in {"node", "name", "parameters"} }
    \cup {NotADict}

---------------------------------------------------------------------------
(* The TaskRegister table *)

Row(copy, node, name, ep, type) ==
    [copy |-> copy, node |-> node, name |-> name, endpoint |-> ep, type |-> type,
     state |-> StatePending]

\* a query that filters on the node alone
Rows_by_node(reg, node, name) == {r \in reg : r.node = node}

\* new_query(TaskRegister, node=node, name=name)
Rows(reg, node, name) == {r \in reg : r.node = node /\ r.name = name}

\* what tells a new row of a pair from the rows the pair has: the least
\* number none of them carries (rows are told apart by their primary key)
NextCopy(reg, node, name) ==
    LET used == {r.copy : r \in Rows(reg, node, name)} IN
    CHOOSE i \in 1..(Cardinality(used) + 1) :
        i \notin used /\ \A j \in 1..(i - 1) : j \in used

\* TaskRegister.unqiue_constraints: (('node', 'name'),)
UniqueViolation(reg, node, name) == Rows(reg, node, name) # {}

\* database.create(TaskRegister, ...): the insert, refused by the table's
\* unique constraint
create(reg, node, name, ep, type) ==
    IF UniqueViolation(reg, node, name)
    THEN [reg |-> reg, result |-> "IntegrityError"]
    ELSE [reg |-> reg \cup {Row(NextCopy(reg, node, name), node, name, ep, type)},
          result |-> "ok"]

\* the rows that database.get_or_create looks for: every keyword is a filter
Matching(reg, node, name, ep, type) ==
    {r \in Rows(reg, node, name) : r.endpoint = ep /\ r.type = type}

\* a get_or_create that never looks and always inserts
get_or_create_insert_only(reg, node, name, ep, type) ==
    create(reg, node, name, ep, type)

\* database.get_or_create(TaskRegister, node=, name=, endpoint=, type=)
get_or_create(reg, node, name, ep, type) ==
    IF Matching(reg, node, name, ep, type) # {}
    THEN [reg |-> reg, result |-> "ok"]
    ELSE create(reg, node, name, ep, type)

---------------------------------------------------------------------------
(* TaskFeature's methods, as functions of the table and the payload.  An   *)
(* outcome holds the table afterwards, how the call ended ("ok" or the     *)
(* error raised), the response, the dispatch_one calls made, and the count *)
(* of database lookups made.                                               *)

\* a lookup that takes every name for a node
get_node_any(name) == name

\* the nodes controller.get_node / new_query(NodeRegister, name=) find
get_node(name) == IF name \in known THEN name ELSE Absent

_validate_keys(payload, keys) ==
    IF ~payload.dict THEN "NotADict"
    ELSE IF \E k \in keys : payload[k] = Absent THEN "MissingKey"
    ELSE "ok"

Outcome(reg, result, response, fwd, queries) ==
    [reg |-> reg, result |-> result, response |-> response, fwd |-> fwd,
     queries |-> queries]

Raised(reg, what, queries) == Outcome(reg, what, NoResponse, <<>>, queries)

_register_task(reg, payload) ==
    LET v == _validate_keys(payload, RegisterRequired) IN
    IF v # "ok" THEN Raised(reg, v, 0)
    ELSE IF get_node(payload.node) = Absent THEN Raised(reg, "NodeNotFound", 1)
    ELSE LET g == get_or_create(reg, payload.node, payload.name,
                                payload.endpoint, payload.type) IN
         IF g.result # "ok" THEN Raised(reg, g.result, 2)
         ELSE Outcome(g.reg, "ok", task_required_data, <<>>, 2)

\* a deregistration that lets TaskRegister.DoesNotExist escape
deregister_missing_raises(reg) == Raised(reg, "DoesNotExist", 2)

\* except TaskRegister.DoesNotExist: return
deregister_missing(reg) == Outcome(reg, "ok", ResultTrue, <<>>, 2)

\* a delete that takes every row of the row's node with it
delete_node_rows(reg, row) == {r \in reg : r.node # row.node}

\* database.delete(task_registry)
delete(reg, row) == reg \ {row}

_deregister_task(reg, payload) ==
    LET v == _validate_keys(payload, DeregisterRequired) IN
    IF v # "ok" THEN Raised(reg, v, 0)
    ELSE IF get_node(payload.node) = Absent THEN Raised(reg, "NodeNotFound", 1)
    ELSE LET task_registry == Rows(reg, payload.node, payload.name) IN
         IF task_registry = {}
         THEN deregister_missing(reg)
         ELSE Outcome(delete(reg, CHOOSE r \in task_registry : TRUE), "ok",
                      ResultTrue, <<>>, 2)

\* a lookup that takes any task row of the node, whatever its name
_node_and_task_any_name(reg, payload) ==
    IF get_node(payload.node) = Absent THEN {}
    ELSE {r \in reg : r.node = payload.node}

\* None (the empty set), or the task row of the pair
_node_and_task(reg, payload) ==
    IF get_node(payload.node) = Absent THEN {}
    ELSE Rows(reg, payload.node, payload.name)

\* a routing test that reads a key the payload does not carry
IsTermination_wrong_key(payload) == payload.parameters = NODE_TERM

\* data.get('status') == RootController.NODE_TERM
IsTermination(payload) == payload.status = NODE_TERM

\* the handler of POST /register/task
register_task_outcome(reg, payload) ==
    IF ~payload.dict THEN Raised(reg, "AttributeError", 0)
    ELSE IF IsTermination(payload) THEN _deregister_task(reg, payload)
    ELSE _register_task(reg, payload)

Forward(node, ep, body) == [node |-> node, endpoint |-> ep, body |-> body]

\* a forward to the endpoint derived from the names, not the stored one
ForwardOf_derived_endpoint(task, payload) ==
    Forward(task.node, endpoint(task.node, task.name), payload.parameters)

\* the arguments of controller.dispatch_one(node, task.endpoint, data['parameters'])
ForwardOf(task, payload) == Forward(task.node, task.endpoint, payload.parameters)

\* the handler of POST /tasks/execute
execute_task_outcome(reg, payload) ==
    LET v == _validate_keys(payload, ExecuteRequired) IN
    IF v # "ok" THEN Raised(reg, v, 0)
    ELSE LET res == _node_and_task(reg, payload) IN
         IF res = {}
         THEN Raised(reg, "TargetNotFound",
                     IF get_node(payload.node) = Absent THEN 1 ELSE 2)
         ELSE LET task == CHOOSE r \in res : TRUE IN
              Outcome(reg, "ok", ResultTrue, <<ForwardOf(task, payload)>>, 2)

---------------------------------------------------------------------------
(* Spec: one action per handled request *)

\* how the pair of a register payload stood when a run of identical calls began
StartOf(reg, payload) ==
    IF ~payload.dict \/ payload.node = Absent \/ payload.name = Absent THEN "none"
    ELSE IF Rows(reg, payload.node, payload.name) = {} THEN "absent"
    ELSE IF Matching(reg, payload.node, payload.name,
                     payload.endpoint, payload.type) # {} THEN "same"
    ELSE "other"

\* the record of a handled request: op is the handler, queued the growth of
\* the dispatch queue, n the length of the run of identical register calls
\* this call ends, start how the pair stood before the run, clean whether no
\* call of the run raised
Last(op, payload, out, queued, n, start, clean) ==
    [op |-> op, payload |-> payload, result |-> out.result,
     response |-> out.response, fwd |-> out.fwd, queries |-> out.queries,
     queued |-> queued, n |-> n, start |-> start, clean |-> clean]

NoPayload == NotADict
NoRow == Row(0, Absent, Absent, Absent, Absent)

\* the value of a configuration key that is missing (TaskYaml gives None)
None == "<None>"

\* a configuration: its top-level name and its tasks value
Config(name, tasks) == [name |-> name, tasks |-> tasks]

\* a tasks value: what Python type it has, whether it is truthy, and for a
\* mapping its (task name, descriptor) entries in order
TasksValue(kind, truthy, items) == [kind |-> kind, truthy |-> truthy, items |-> items]
NoTasks == TasksValue("NoneType", FALSE, <<>>)
NoConfig == Config(None, NoTasks)

\* no TaskNode has been constructed
NodeInit(enabled) ==
    /\ feature = enabled
    /\ nphase = "none"
    /\ nname = None
    /\ _config = NoConfig
    /\ _valid = FALSE
    /\ _tasks = <<>>
    /\ _errors = <<>>
    /\ _warnings = <<>>
    /\ idx = 0
    /\ endpoints = <<>>
    /\ calls = <<>>
    /\ verifies = 0
    /\ creates = 0
    /\ nraised = "none"

\* the coordinator as it starts, its table holding the given rows
CoordInitFrom(rows) ==
    /\ known = KnownNodes
    /\ registry = rows
    /\ queue = <<>>
    /\ delivery = "none"
    /\ last = Last("none", NoPayload, Raised({}, "none", 0), 0, 0, "none", TRUE)
    /\ pre = {}
    /\ gone = {}
    /\ pc = [w \in Workers |-> "idle"]
    /\ req = [w \in Workers |-> NoPayload]
    /\ found = [w \in Workers |-> NoRow]
    /\ wres = [w \in Workers |-> "none"]
    /\ lock = NoOwner

CoordInit == CoordInitFrom({})

Init == CoordInit /\ NodeInit(TRUE)

\* the pairs whose last completed call to /register/task was a
\* deregistration, after one more call
GoneAfter(pairs, payload, out) ==
    IF out.result # "ok" THEN pairs
    ELSE IF IsTermination(payload) THEN pairs \cup {<<payload.node, payload.name>>}
    ELSE pairs \ {<<payload.node, payload.name>>}

register_task(payload) ==
    LET out == register_task_outcome(registry, payload)
        registers == payload.dict /\ payload.status # NODE_TERM
        again == /\ last.op = "register_task"
                 /\ last.payload = payload
        n == IF ~registers THEN 0
             ELSE IF again THEN (IF last.n < MaxRun THEN last.n + 1 ELSE MaxRun)
             ELSE 1
        start == IF ~registers THEN "none"
                 ELSE IF again THEN last.start ELSE StartOf(registry, payload)
        clean == IF registers /\ again THEN last.clean /\ out.result = "ok"
                 ELSE out.result = "ok"
    IN /\ registry' = out.reg
       /\ pre' = registry
       /\ gone' = GoneAfter(gone, payload, out)
       /\ last' = Last("register_task", payload, out, 0, n, start, clean)
       /\ UNCHANGED <<known, queue, delivery, handlerVars, nodeVars>>

\* a dispatch that sends the forward itself instead of queueing it
dispatch_one_inline(q, fwd) == q

\* controller.dispatch_one(node, endpoint, parameters): queue the forward
dispatch_one(q, fwd) == q \o fwd

execute_task(payload) ==
    LET out == execute_task_outcome(registry, payload) IN
    /\ Len(queue) + Len(out.fwd) <= MaxQueue
    /\ registry' = out.reg
    /\ pre' = registry
    /\ queue' = dispatch_one(queue, out.fwd)
    /\ last' = Last("execute_task", payload, out,
                    Len(dispatch_one(queue, out.fwd)) - Len(queue),
                    0, "none", out.result = "ok")
    /\ UNCHANGED <<known, delivery, gone, handlerVars, nodeVars>>

\* a controller dispatcher takes the oldest forward and POSTs it to the node,
\* where the task's handler runs, fails, or the node cannot be reached
Deliver(outcome) ==
    /\ queue # <<>>
    /\ delivery' = outcome
    /\ queue' = Tail(queue)
    /\ UNCHANGED <<known, registry, last, pre, gone, handlerVars, nodeVars>>

Next ==
    \/ \E payload \in RegisterRequests : register_task(payload)
    \/ \E payload \in ExecuteRequests : execute_task(payload)
    \/ \E outcome \in {"ran", "failed", "unreachable"} : Deliver(outcome)

Spec == Init /\ [][Next]_vars

---------------------------------------------------------------------------
(* SpecLock: /register/task handled by concurrent workers.  A worker stops  *)
(* before each database call; get_or_create is its query, then its insert. *)

\* the bodies the workers handle: they pass _validate_keys and name a known node
LockRequests ==
    {b \in RegisterBodies \cup DeregisterBodies :
        /\ b.node \in KnownNodes
        /\ b.status # Absent
        /\ b.type # Absent \/ IsTermination(b)
        /\ ~(b.type = kCron /\ b.endpoint = OtherEndpoint)}

coordVars == <<known, queue, delivery, last, pre, gone, nodeVars>>

\* a with block that never waits
LockFree_never_waits == TRUE

\* `with self.lock:` is entered only when no worker holds the lock
LockFree == lock = NoOwner

\* register_task up to the lock, or up to _deregister_task's query
LockStart(w, payload) ==
    /\ pc[w] = "idle"
    /\ req' = [req EXCEPT ![w] = payload]
    /\ wres' = [wres EXCEPT ![w] = "none"]
    /\ pc' = [pc EXCEPT ![w] = IF IsTermination(payload) THEN "dget" ELSE "wait"]
    /\ UNCHANGED <<registry, found, lock, coordVars>>

LockAcquire(w) ==
    /\ pc[w] = "wait"
    /\ LockFree
    /\ lock' = w
    /\ pc' = [pc EXCEPT ![w] = "get"]
    /\ UNCHANGED <<registry, req, found, wres, coordVars>>

\* get_or_create's query
LockGet(w) ==
    /\ pc[w] = "get"
    /\ pc' = [pc EXCEPT ![w] =
                IF Matching(registry, req[w].node, req[w].name,
                            req[w].endpoint, req[w].type) # {}
                THEN "exit" ELSE "create"]
    /\ UNCHANGED <<registry, req, found, wres, lock, coordVars>>

\* get_or_create's insert
LockCreate(w) ==
    LET out == create(registry, req[w].node, req[w].name,
                      req[w].endpoint, req[w].type) IN
    /\ pc[w] = "create"
    /\ registry' = out.reg
    /\ wres' = [wres EXCEPT ![w] = out.result]
    /\ pc' = [pc EXCEPT ![w] = "exit"]
    /\ UNCHANGED <<req, found, lock, coordVars>>

\* leaving the with block, by return or by exception
LockRelease(w) ==
    /\ pc[w] = "exit"
    /\ lock' = IF lock = w THEN NoOwner ELSE lock
    /\ wres' = [wres EXCEPT ![w] = IF wres[w] = "none" THEN "ok" ELSE wres[w]]
    /\ pc' = [pc EXCEPT ![w] = "idle"]
    /\ UNCHANGED <<registry, req, found, coordVars>>

\* _deregister_task's query, outside the lock
DeregisterGet(w) ==
    LET rows == Rows(registry, req[w].node, req[w].name) IN
    /\ pc[w] = "dget"
    /\ IF rows = {}
       THEN /\ pc' = [pc EXCEPT ![w] = "idle"]
            /\ wres' = [wres EXCEPT ![w] = "ok"]
            /\ found' = found
       ELSE /\ pc' = [pc EXCEPT ![w] = "ddel"]
            /\ found' = [found EXCEPT ![w] = CHOOSE r \in rows : TRUE]
            /\ wres' = wres
    /\ UNCHANGED <<registry, req, lock, coordVars>>

\* database.delete(task_registry)
DeregisterDelete(w) ==
    /\ pc[w] = "ddel"
    /\ registry' = registry \ {found[w]}
    /\ found' = [found EXCEPT ![w] = NoRow]
    /\ wres' = [wres EXCEPT ![w] = "ok"]
    /\ pc' = [pc EXCEPT ![w] = "idle"]
    /\ UNCHANGED <<req, lock, coordVars>>

NextLock ==
    \/ \E w \in Workers, payload \in LockRequests : LockStart(w, payload)
    \/ \E w \in Workers : LockAcquire(w)
    \/ \E w \in Workers : LockGet(w)
    \/ \E w \in Workers : LockCreate(w)
    \/ \E w \in Workers : LockRelease(w)
    \/ \E w \in Workers : DeregisterGet(w)
    \/ \E w \in Workers : DeregisterDelete(w)

SpecLock == Init /\ [][NextLock]_vars

---------------------------------------------------------------------------
(* The node side: TaskNode (hivemind_tasks/tasknode.py) and _Task          *)
(* (hivemind_tasks/task.py).  A configuration is what TaskYaml.load gives. *)

\* most verify_config calls made on one node
MaxVerify == 2

\* a value that is not a str (a number, say)
NotAString == "<int>"
\* isinstance(value, str), for a key that is present
IsStr(value) == value # NotAString

\* a parameters value: absent, a list (of elements, each a list or anything
\* else), or anything else
ParamsValue(kind, items) == [kind |-> kind, items |-> items]
NoParams == ParamsValue("absent", <<>>)

\* a task descriptor; commands tells whether the key is there
Descriptor(type, commands, help, parameters) ==
    [type |-> type, commands |-> commands, help |-> help, parameters |-> parameters]

WellFormed(type) == Descriptor(type, TRUE, Absent, NoParams)

\* the descriptors of a configuration's first task: every kind of type value
\* with and without commands, a well-typed one with a help or a parameters
\* value of each kind, and two that break every rule at once
FirstDescriptors ==
    { Descriptor(ty, c, Absent, NoParams) :
        ty \in {kRequest, kCron, "bogus", NotAString, Absent}, c \in BOOLEAN }
    \cup { Descriptor(kRequest, TRUE, "text", ParamsValue("list", <<"list">>)),
           Descriptor(kRequest, TRUE, NotAString, NoParams),
           Descriptor(kRequest, TRUE, Absent, ParamsValue("str", <<>>)),
           Descriptor(kRequest, TRUE, Absent, ParamsValue("list", <<"str">>)),
           Descriptor(kRequest, TRUE, Absent, ParamsValue("list", <<"list", "str">>)),
           Descriptor(NotAString, FALSE, NotAString, ParamsValue("list", <<"str", "str">>)),
           Descriptor("bogus", FALSE, NotAString, ParamsValue("str", <<>>)) }

\* the descriptors of its second task
SecondDescriptors ==
    { WellFormed(kRequest), WellFormed("bogus"),
      Descriptor(kCron, FALSE, Absent, NoParams) }

Entry(name, descriptor) == [name |-> name, descriptor |-> descriptor]

\* the tasks values that are mappings, of up to two tasks
TaskMappings ==
    { tv \in
    { TasksValue("dict", FALSE, <<>>) }
    \cup { TasksValue("dict", TRUE, <<Entry(t, d)>>) :
             t \in TaskNames, d \in FirstDescriptors }
    \cup { TasksValue("dict", TRUE, <<Entry(t, d), Entry(u, e)>>) :
             t \in TaskNames, u \in TaskNames, d \in FirstDescriptors,
             e \in SecondDescriptors }
      : \A i, j \in DOMAIN tv.items :
            tv.items[i].name = tv.items[j].name => i = j }

\* the tasks values that are no mappings: empty and non-empty lists and
\* strings, zero and another number
NonMappings ==
    { TasksValue(k, b, <<>>) : k \in {"list", "str", "int"}, b \in BOOLEAN }

Configs ==
    { Config(n, tv) : n \in {None, "n1"},
                      tv \in TaskMappings \cup NonMappings \cup {NoTasks} }

\* isinstance(task_mapping, (dict, pdict))
IsMapping(tv) == tv.kind = "dict"

\* an entry of the error list
Err(kind, task, value) == [kind |-> kind, task |-> task, value |-> value]

\* a required-key check that forgets the tasks key
MissingKeyErrors_name_only(config) ==
    IF config.name = None THEN <<Err("missing_key", "", "name")>> ELSE <<>>

\* for key in required: if self._config[key] is None
MissingKeyErrors(config) ==
    (IF config.name = None THEN <<Err("missing_key", "", "name")>> ELSE <<>>)
    \o (IF config.tasks.kind = "NoneType" THEN <<Err("missing_key", "", "tasks")>>
        ELSE <<>>)

\* a type rule that only looks at strings
TypeErrors_strings_only(task_name, task_data) ==
    IF task_data.type # Absent /\ IsStr(task_data.type)
       /\ task_data.type \notin kTaskTypes
    THEN <<Err("unknown_type", task_name, task_data.type)>>
    ELSE <<>>

\* the type rule of a descriptor
TypeErrors(task_name, task_data) ==
    IF task_data.type = Absent \/ ~IsStr(task_data.type)
    THEN <<Err("bad_type", task_name, "")>>
    ELSE IF task_data.type \notin kTaskTypes
    THEN <<Err("unknown_type", task_name, task_data.type)>>
    ELSE <<>>

_verify_param(task_name, param) ==
    IF param # "list" THEN <<Err("param_not_list", task_name, "")>> ELSE <<>>

RECURSIVE ParamErrors(_, _)
ParamErrors(task_name, params) ==
    IF params = <<>> THEN <<>>
    ELSE _verify_param(task_name, Head(params))
         \o ParamErrors(task_name, Tail(params))

\* a rule check that stops at the first rule a descriptor breaks
DescriptorErrors_fail_fast(task_name, task_data) ==
    IF TypeErrors(task_name, task_data) # <<>> THEN TypeErrors(task_name, task_data)
    ELSE IF ~task_data.commands THEN <<Err("no_commands", task_name, "")>>
    ELSE IF task_data.help # Absent /\ ~IsStr(task_data.help)
    THEN <<Err("help_not_str", task_name, "")>>
    ELSE IF task_data.parameters.kind = "absent" THEN <<>>
    ELSE IF task_data.parameters.kind # "list"
    THEN <<Err("params_not_list", task_name, "")>>
    ELSE SubSeq(ParamErrors(task_name, task_data.parameters.items), 1, 1)

\* the body of the loop over task_mapping.items()
DescriptorErrors(task_name, task_data) ==
    TypeErrors(task_name, task_data)
    \o (IF ~task_data.commands THEN <<Err("no_commands", task_name, "")>> ELSE <<>>)
    \o (IF task_data.help # Absent /\ ~IsStr(task_data.help)
        THEN <<Err("help_not_str", task_name, "")>> ELSE <<>>)
    \o (IF task_data.parameters.kind = "absent" THEN <<>>
        ELSE IF task_data.parameters.kind # "list"
        THEN <<Err("params_not_list", task_name, "")>>
        ELSE ParamErrors(task_name, task_data.parameters.items))

RECURSIVE MappingErrors(_)
MappingErrors(items) ==
    IF items = <<>> THEN <<>>
    ELSE DescriptorErrors(Head(items).name, Head(items).descriptor)
         \o MappingErrors(Tail(items))

\* if task_mapping:
IsTruthy(tv) == tv.truthy

\* a validation that starts from an empty list
Accumulate_reset(old, new) == new

\* self._errors.append(...): the list is the one of the node, never reset
Accumulate(old, new) == old \o new

\* the errors one verify_config call appends
NewErrors(config) ==
    MissingKeyErrors(config)
    \o (IF ~IsTruthy(config.tasks) THEN <<>>
        ELSE IF ~IsMapping(config.tasks)
        THEN <<Err("tasks_not_map", "", config.tasks.kind)>>
        ELSE MappingErrors(config.tasks.items))

\* a validation that never clears the flag
ValidAfter_keeps(valid, errors) == valid

\* a validation that sets the flag back when it is already cleared
ValidAfter_toggles(valid, errors) == IF errors # <<>> THEN ~valid ELSE valid

\* if self._errors: self._valid = False
ValidAfter(valid, errors) == IF errors # <<>> THEN FALSE ELSE valid

coordState == <<known, registry, queue, delivery, last, pre, gone, handlerVars>>

\* a settings lookup that finds every feature enabled
feature_enabled_always(enabled) == TRUE

\* global_settings.feature_enabled('hivemind_tasks')
feature_enabled(enabled) == enabled

\* TaskNode.__init__
Construct(name, config) ==
    /\ nphase = "none"
    /\ IF ~feature_enabled(feature)
       THEN /\ nraised' = "EnvironmentError"
            /\ nphase' = "failed"
            /\ UNCHANGED <<nname, _config, _valid, _tasks, _errors, _warnings>>
       ELSE /\ nname' = name
            /\ _config' = config
            /\ _valid' = TRUE
            /\ _tasks' = <<>>
            /\ _errors' = <<>>
            /\ _warnings' = <<>>
            /\ nphase' = "constructed"
            /\ nraised' = "none"
    /\ UNCHANGED <<feature, idx, endpoints, calls, verifies, creates, coordState>>

\* TaskNode.verify_config, called on the node
verify_config ==
    /\ nphase = "constructed"
    /\ verifies < MaxVerify
    /\ _errors' = Accumulate(_errors, NewErrors(_config))
    /\ _valid' = ValidAfter(_valid, Accumulate(_errors, NewErrors(_config)))
    /\ verifies' = verifies + 1
    /\ UNCHANGED <<feature, nphase, nname, _config, _tasks, _warnings, idx,
                   endpoints, calls, creates, nraised, coordState>>

\* _Task(self, task_name, task_descriptor, self._config)
_Task(node, name, descriptor) == [node |-> node, name |-> name, descriptor |-> descriptor]

\* _Task.endpoint, a property read off the task
task_endpoint(task) == endpoint(task.node, task.name)

\* a create_tasks that builds the list back to front
NewTasks_reversed(node, items) ==
    [i \in 1..Len(items) |->
        _Task(node, items[Len(items) + 1 - i].name, items[Len(items) + 1 - i].descriptor)]

\* the Tasks one create_tasks call appends, in the order of .items()
NewTasks(node, items) ==
    [i \in 1..Len(items) |-> _Task(node, items[i].name, items[i].descriptor)]

\* self._config['tasks'].items() needs a mapping
HasItems(tv) == IsMapping(tv)

\* most create_tasks calls made on the node before it starts
MaxCreate == 1

\* TaskNode.create_tasks, called on the node
create_tasks ==
    /\ nphase = "constructed"
    /\ creates < MaxCreate
    /\ creates' = creates + 1
    /\ IF HasItems(_config.tasks)
       THEN /\ _tasks' = _tasks \o NewTasks(nname, _config.tasks.items)
            /\ UNCHANGED nraised
       ELSE /\ nraised' = "AttributeError"
            /\ UNCHANGED _tasks
    /\ UNCHANGED <<feature, nphase, nname, _config, _valid, _errors, _warnings,
                   idx, endpoints, calls, verifies, coordState>>

\* TaskNode.run: "starting" is super().run(), the start-up of the node
run ==
    /\ nphase = "constructed"
    /\ verifies < MaxVerify
    /\ _errors' = Accumulate(_errors, NewErrors(_config))
    /\ _valid' = ValidAfter(_valid, Accumulate(_errors, NewErrors(_config)))
    /\ verifies' = verifies + 1
    /\ nphase' = IF ~ValidAfter(_valid, Accumulate(_errors, NewErrors(_config)))
                 THEN "stopped" ELSE "starting"
    /\ UNCHANGED <<feature, nname, _config, _tasks, _warnings, idx, endpoints,
                   calls, creates, nraised, coordState>>

\* a loop that ends after its first iteration
LoopNext_first_only(i, n, raised, going, done) ==
    IF raised THEN "crashed" ELSE done

\* a loop that swallows what an iteration raises
LoopNext_swallow(i, n, raised, going, done) == IF i >= n THEN done ELSE going

\* where a for loop over n tasks stands after iteration i: what the iteration
\* raises leaves the loop and the method
LoopNext(i, n, raised, going, done) ==
    IF raised THEN "crashed" ELSE IF i >= n THEN done ELSE going

\* TaskNode.additional_registration up to its loop: the start-up calls it,
\* and so may anyone who holds the node
additional_registration ==
    /\ nphase \in {"constructed", "starting", "stopped"}
    /\ IF ~_valid
       THEN UNCHANGED <<nphase, _tasks, idx, creates, nraised>>
       ELSE /\ creates' = creates + 1
            /\ IF HasItems(_config.tasks)
               THEN /\ _tasks' = _tasks \o NewTasks(nname, _config.tasks.items)
                    /\ nphase' = LoopNext(0, Len(_tasks \o NewTasks(nname, _config.tasks.items)),
                                          FALSE, "registering", "running")
                    /\ idx' = 1
                    /\ UNCHANGED nraised
               ELSE /\ nraised' = "AttributeError"
                    /\ nphase' = "crashed"
                    /\ UNCHANGED <<_tasks, idx>>
    /\ UNCHANGED <<feature, nname, _config, _valid, _errors, _warnings,
                   endpoints, calls, verifies, coordState>>

\* how a call to the coordinator goes: the request is handled there, or it
\* never arrives
Deliveries == {"delivered", "lost"}

\* RootController._register_post('task', body): the POST to /register/task and
\* what the caller sees of it
_register_post(reg, body, how) ==
    IF how = "lost" THEN [reg |-> reg, raised |-> "ConnectionError"]
    ELSE LET out == register_task_outcome(reg, body) IN
         [reg |-> out.reg,
          raised |-> IF out.result = "ok" THEN "none" ELSE "HTTPError"]

\* an entry of the log of calls made to the coordinator
Call(op, task, raised) == [op |-> op, task |-> task, raised |-> raised]

\* a loop that exposes no endpoint
Expose_nothing(eps, task) == eps

\* handler_class.endpoints[task.endpoint] = task
Expose(eps, task) ==
    [e \in DOMAIN eps \cup {task_endpoint(task)} |->
        IF e = task_endpoint(task) THEN task ELSE eps[e]]

\* an iteration of the loop of additional_registration, first statement: the
\* Task is put under its endpoint in the handler class
ExposeStep ==
    /\ nphase = "registering"
    /\ endpoints' = Expose(endpoints, _tasks[idx])
    /\ nphase' = "exposed"
    /\ UNCHANGED <<feature, nname, _config, _valid, _tasks, _errors, _warnings,
                   idx, calls, verifies, creates, nraised, coordState>>

\* the iteration's second statement: TaskNode.register_task(task) posts the
\* task, and the loop goes on or is left
RegisterStep(how) ==
    /\ nphase = "exposed"
    /\ LET task == _tasks[idx] IN
       /\ IF task.descriptor.type = Absent
          THEN /\ nraised' = "KeyError"
               /\ nphase' = "crashed"
               /\ UNCHANGED <<registry, calls, idx>>
          ELSE LET post == _register_post(registry,
                               RegisterBody(task.node, task.name, task.descriptor.type),
                               how) IN
               /\ registry' = post.reg
               /\ calls' = Append(calls, Call("register", task.name, post.raised))
               /\ nraised' = post.raised
               /\ nphase' = LoopNext(idx, Len(_tasks), post.raised # "none",
                                     "registering", "running")
               /\ idx' = IF post.raised # "none" THEN idx ELSE idx + 1
    /\ UNCHANGED <<feature, nname, _config, _valid, _tasks, _errors, _warnings,
                   endpoints, verifies, creates, known, queue, delivery, last,
                   pre, gone, handlerVars>>

\* TaskNode.on_shutdown up to its loop, called when the node is torn down
on_shutdown ==
    /\ nphase = "running"
    /\ nphase' = LoopNext(0, Len(_tasks), FALSE, "stopping", "down")
    /\ idx' = 1
    /\ UNCHANGED <<feature, nname, _config, _valid, _tasks, _errors, _warnings,
                   endpoints, calls, verifies, creates, nraised, coordState>>

\* one iteration of the loop of on_shutdown: TaskNode.deregister_task(task)
DeregisterStep(how) ==
    /\ nphase = "stopping"
    /\ LET task == _tasks[idx]
           post == _register_post(registry, DeregisterBody(task.node, task.name),
                                  how) IN
       /\ registry' = post.reg
       /\ calls' = Append(calls, Call("deregister", task.name, post.raised))
       /\ nraised' = post.raised
       /\ nphase' = LoopNext(idx, Len(_tasks), post.raised # "none", "stopping", "down")
       /\ idx' = IF post.raised # "none" THEN idx ELSE idx + 1
    /\ UNCHANGED <<feature, nname, _config, _valid, _tasks, _errors, _warnings,
                   endpoints, verifies, creates, known, queue, delivery, last,
                   pre, gone, handlerVars>>

\* a row a former run of node n1 left behind: task t1 registered as a cron task
StaleRow == Row(1, "n1", "t1", endpoint("n1", "t1"), kCron)

InitNode ==
    /\ \E rows \in {{}, {StaleRow}} : CoordInitFrom(rows)
    /\ \E enabled \in BOOLEAN : NodeInit(enabled)

NextNode ==
    \/ \E name \in NodeNames, config \in Configs : Construct(name, config)
    \/ verify_config
    \/ create_tasks
    \/ run
    \/ additional_registration
    \/ ExposeStep
    \/ \E d \in Deliveries : RegisterStep(d)
    \/ on_shutdown
    \/ \E d \in Deliveries : DeregisterStep(d)

SpecNode == InitNode /\ [][NextNode]_vars

\* a loop iteration, once begun, ends: the POST returns or raises
SpecNodeFair ==
    /\ InitNode
    /\ [][NextNode]_vars
    /\ WF_vars(ExposeStep)
    /\ WF_vars(\E d \in Deliveries : RegisterStep(d))
    /\ WF_vars(\E d \in Deliveries : DeregisterStep(d))

---------------------------------------------------------------------------
(* Properties of Spec.  They read the last handled request (last), the     *)
(* table before it (pre) and the table after it (registry).                *)

Pairs == NodeNames \X TaskNames

\* the last request was POSTed to /register/task with a JSON object
OnRegisterEndpoint == last.op = "register_task" /\ last.payload.dict
\* ... and its status is not the termination marker
TookRegisterPath == OnRegisterEndpoint /\ last.payload.status # NODE_TERM
\* ... and its status is the termination marker
TookTerminationPath == OnRegisterEndpoint /\ last.payload.status = NODE_TERM

HasKeys(payload, keys) == payload.dict /\ \A k \in keys : payload[k] # Absent

LastRows(reg) == Rows(reg, last.payload.node, last.payload.name)
LastMatching(reg) ==
    Matching(reg, last.payload.node, last.payload.name,
             last.payload.endpoint, last.payload.type)

\* C1: after N >= 1 consecutive RegisterTask calls with one payload for a
\* known node (the pair unregistered, or registered with this payload, when
\* the first arrives), none of the calls has raised and the registry holds
\* exactly one record of the pair, the one the payload describes.
C1_DuplicateRegistrationIdempotent ==
    ( /\ TookRegisterPath
      /\ HasKeys(last.payload, {"node", "name", "type", "endpoint", "port"})
      /\ last.payload.node \in known
      /\ last.n >= 1
      /\ last.start \in {"absent", "same"} )
    => /\ last.clean
       /\ last.result = "ok"
       /\ Cardinality(LastRows(registry)) = 1
       /\ LastMatching(registry) = LastRows(registry)

\* three identical registrations of an unregistered pair have been handled
C1_Witness ==
    /\ TookRegisterPath
    /\ last.payload.node \in known
    /\ last.n >= 3
    /\ last.start = "absent"
    /\ last.clean
    /\ Cardinality(LastRows(registry)) = 1

\* C2: the registry never holds two records of one (node, name) pair, and a
\* registration of a registered pair with another endpoint or type updates
\* or reuses the record: it succeeds and the pair keeps exactly one record.
C2_UpdateOrReuse ==
    /\ \A nt \in Pairs : Cardinality(Rows(registry, nt[1], nt[2])) <= 1
    /\ ( /\ TookRegisterPath
         /\ HasKeys(last.payload, {"node", "name", "type", "endpoint", "port"})
         /\ last.payload.node \in known
         /\ LastRows(pre) # {}
         /\ LastMatching(pre) = {} )
       => /\ last.result = "ok"
          /\ Cardinality(LastRows(registry)) = 1

\* worker w is between get_or_create's query and the end of the with block
InGetOrCreate(w) == pc[w] \in {"get", "create", "exit"}

\* C3 (SpecLock): the get-or-create steps of concurrent RegisterTask
\* requests exclude one another: a worker between the query and the end of
\* the with block holds the lock, no two workers are there at once, a row
\* matching the payload cannot appear between a worker's query and its
\* insert, and no pair ever has two records.
C3_GetOrCreateExclusive ==
    /\ \A w \in Workers : InGetOrCreate(w) => lock = w
    /\ \A v, w \in Workers : InGetOrCreate(v) /\ InGetOrCreate(w) => v = w
    /\ \A w \in Workers :
         pc[w] = "create" =>
           Matching(registry, req[w].node, req[w].name,
                    req[w].endpoint, req[w].type) = {}
    /\ \A nt \in Pairs : Cardinality(Rows(registry, nt[1], nt[2])) <= 1

\* two workers handle the same registration at once: one has inserted the
\* row and not yet left the with block, the other waits for the lock
C3_Witness ==
    \E v, w \in Workers :
        /\ v # w
        /\ req[v] = req[w]
        /\ pc[v] = "exit" /\ wres[v] = "ok"
        /\ pc[w] = "wait"
        /\ Cardinality(Rows(registry, req[v].node, req[v].name)) = 1

\* C4: ExecuteTask for a pair without a record (unknown node, or known node
\* without that task) raises the not-found error, gives no success response
\* and makes no dispatch_one call.
C4_ExecuteUnregisteredFails ==
    ( /\ last.op = "execute_task"
      /\ HasKeys(last.payload, {"node", "name", "parameters"})
      /\ (last.payload.node \notin known \/ LastRows(pre) = {}) )
    => /\ last.result = "TargetNotFound"
       /\ last.response = NoResponse
       /\ last.fwd = <<>>
       /\ last.queued = 0

\* an execute for a task the known node has not registered, while the node
\* has another task registered
C4_Witness ==
    /\ last.op = "execute_task"
    /\ HasKeys(last.payload, {"node", "name", "parameters"})
    /\ last.payload.node \in known
    /\ LastRows(pre) = {}
    /\ pre # {}
    /\ last.result = "TargetNotFound"

\* C5: a successful RegisterTask of (n, t) with endpoint e leaves the pair's
\* record holding e, and an ExecuteTask {n, t, p} for a registered pair makes
\* exactly one forward, to node n at the stored endpoint with body p, and
\* answers {result: true}.
C5_ExecuteForwardsOnce ==
    /\ ( /\ TookRegisterPath
         /\ last.result = "ok" )
       => /\ \A r \in LastRows(registry) : r.endpoint = last.payload.endpoint
          /\ LastRows(registry) # {}
    /\ ( /\ last.op = "execute_task"
         /\ HasKeys(last.payload, {"node", "name", "parameters"})
         /\ LastRows(pre) # {} )
       => /\ last.result = "ok"
          /\ last.response = ResultTrue
          /\ last.queued = 1
          /\ \E r \in LastRows(pre) :
               last.fwd = << [node |-> last.payload.node,
                              endpoint |-> r.endpoint,
                              body |-> last.payload.parameters] >>

\* the forward of an execute is in the queue, for a task registered at an
\* endpoint other than the derived one, with a body other than {}
C5_Witness ==
    /\ last.op = "execute_task"
    /\ last.result = "ok"
    /\ last.payload.parameters = "{a:1}"
    /\ queue = << [node |-> "n1", endpoint |-> OtherEndpoint, body |-> "{a:1}"] >>
    /\ \E r \in registry : r.node = "n1" /\ r.endpoint = OtherEndpoint

\* C6: a /register/task payload whose status is the termination marker
\* takes the deregister path: it never adds a record, and for a known node
\* (node and name given) it removes the pair's record if there is one,
\* leaves the other records, and answers {result: true}.
C6_TerminationDeregisters ==
    TookTerminationPath
    => /\ registry \subseteq pre
       /\ ( /\ HasKeys(last.payload, {"node", "name"})
            /\ last.payload.node \in known )
          => /\ last.result = "ok"
             /\ last.response = ResultTrue
             /\ LastRows(registry) = {}
             /\ registry = pre \ LastRows(pre)

\* a whole register body (type, endpoint and port given) with the
\* termination status removed the pair's record
C6_Witness ==
    /\ TookTerminationPath
    /\ HasKeys(last.payload, {"node", "name", "type", "endpoint", "port"})
    /\ LastRows(pre) # {}
    /\ LastRows(registry) = {}
    /\ last.response = ResultTrue

\* C7: DeregisterTask for a known node and a task without a record is a
\* no-op: it raises nothing, answers {result: true} and leaves the registry
\* as it was.
C7_DeregisterUnregisteredNoOp ==
    ( /\ TookTerminationPath
      /\ HasKeys(last.payload, {"node", "name"})
      /\ last.payload.node \in known
      /\ LastRows(pre) = {} )
    => /\ last.result = "ok"
       /\ last.response = ResultTrue
       /\ registry = pre

\* a deregistration of an unregistered task while another task is registered
C7_Witness ==
    /\ TookTerminationPath
    /\ HasKeys(last.payload, {"node", "name"})
    /\ last.payload.node \in known
    /\ LastRows(pre) = {}
    /\ pre # {}
    /\ registry = pre
    /\ last.result = "ok"

\* C8: an ExecuteTask request (a JSON object) lacking node, name or
\* parameters fails validation before any lookup is made, and queues nothing.
C8_ExecuteValidatesFirst ==
    ( /\ last.op = "execute_task"
      /\ last.payload.dict
      /\ \E k \in {"node", "name", "parameters"} : last.payload[k] = Absent )
    => /\ last.result = "MissingKey"
       /\ last.queries = 0
       /\ last.fwd = <<>>
       /\ last.queued = 0
       /\ last.response = NoResponse

\* an execute for a registered pair that lacks only the parameters
C8_Witness ==
    /\ last.op = "execute_task"
    /\ last.payload.parameters = Absent
    /\ last.payload.node \in known
    /\ LastRows(registry) # {}
    /\ last.result = "MissingKey"

\* C9: a RegisterTask or DeregisterTask payload naming an unknown node fails
\* and leaves the registry unchanged; with the path's required keys present
\* the failure is the node-not-found error.
C9_UnknownNodeFails ==
    ( /\ OnRegisterEndpoint
      /\ last.payload.node # Absent
      /\ last.payload.node \notin known )
    => /\ last.result # "ok"
       /\ registry = pre
       /\ ( \/ TookRegisterPath
               /\ HasKeys(last.payload, {"node", "name", "type", "endpoint", "port"})
            \/ TookTerminationPath
               /\ HasKeys(last.payload, {"node", "name"}) )
          => last.result = "NodeNotFound"

\* a registration naming an unknown node failed while the registry held rows
C9_Witness ==
    /\ TookRegisterPath
    /\ last.payload.node \notin known /\ last.payload.node # Absent
    /\ last.result = "NodeNotFound"
    /\ registry # {}

\* C10: ExecuteTask is fire-and-forget.  A successful execute has answered
\* {result: true} with its forward queued; the step that queues a forward is
\* the step that answers, and no delivery takes place in it; and a delivery,
\* whatever comes of it, leaves the answer already given as it was.
C10_FireAndForget ==
    /\ [](last.op = "execute_task" /\ last.result = "ok"
            => last.response = ResultTrue /\ last.queued = 1)
    /\ [][Len(queue') > Len(queue)
            => /\ last'.op = "execute_task"
               /\ last'.response = ResultTrue
               /\ queue' = queue \o last'.fwd
               /\ delivery' = delivery]_vars
    /\ [][delivery' # delivery \/ Len(queue') < Len(queue) => last' = last]_vars

\* the caller was answered {result: true} and the forward then found the
\* node unreachable
C10_Witness ==
    /\ last.op = "execute_task"
    /\ last.result = "ok"
    /\ last.response = ResultTrue
    /\ queue = <<>>
    /\ delivery = "unreachable"

---------------------------------------------------------------------------
(* Properties of SpecNode: the node side.                                  *)

\* the positions of the error list that hold an error about the task
ErrorsAbout(task_name) == {j \in DOMAIN _errors : _errors[j].task = task_name}

\* the node has been validated, by verify_config or by run
Verified == verifies > 0

\* C11: for every configuration in which the top-level key name or the
\* top-level key tasks is missing, verify_config returns a non-empty error
\* list (with an error about each missing key) and the node's valid flag is
\* false afterwards.
C11_MissingKeyInvalid ==
    Verified =>
        /\ (_config.name = None =>
               /\ \E j \in DOMAIN _errors : _errors[j] = Err("missing_key", "", "name")
               /\ ~_valid)
        /\ (_config.tasks.kind = "NoneType" =>
               /\ \E j \in DOMAIN _errors : _errors[j] = Err("missing_key", "", "tasks")
               /\ ~_valid)

C11_Witness ==
    /\ verifies = 1
    /\ _config = Config("n1", NoTasks)
    /\ _errors = <<Err("missing_key", "", "tasks")>>
    /\ ~_valid

\* a descriptor is well formed but for its type
OtherwiseWellFormed(d) ==
    /\ d.commands
    /\ d.help # NotAString
    /\ \/ d.parameters.kind = "absent"
       \/ /\ d.parameters.kind = "list"
          /\ \A k \in DOMAIN d.parameters.items : d.parameters.items[k] = "list"

\* C12: for every task descriptor whose type is not request or cron (absent,
\* not a string, or an unknown string) and that is otherwise well formed, one
\* verify_config call reports exactly one error for that task; the error
\* names the task, and for an unknown string the type as well.
C12_BadTypeOneError ==
    (verifies = 1 /\ _config.tasks.kind = "dict") =>
        \A i \in DOMAIN _config.tasks.items :
            LET t == _config.tasks.items[i].name
                d == _config.tasks.items[i].descriptor IN
            (d.type \notin {"request", "cron"} /\ OtherwiseWellFormed(d)) =>
                /\ Cardinality(ErrorsAbout(t)) = 1
                /\ \A j \in ErrorsAbout(t) :
                       \/ _errors[j] = Err("bad_type", t, "")
                          /\ d.type \in {Absent, NotAString}
                       \/ _errors[j] = Err("unknown_type", t, d.type)
                          /\ d.type \notin {Absent, NotAString}
                /\ ~_valid

C12_Witness ==
    /\ verifies = 1
    /\ _config = Config("n1", TasksValue("dict", TRUE, <<Entry("t1", WellFormed("bogus"))>>))
    /\ _errors = <<Err("unknown_type", "t1", "bogus")>>
    /\ ~_valid

\* C13: a node whose configuration fails validation never registers a task:
\* when run() finds the configuration invalid it returns without delegating
\* to the start-up, and neither it nor a later additional_registration
\* creates a Task, exposes an endpoint or sends a call to the coordinator.
C13_InvalidNeverRegisters ==
    /\ [](_errors # <<>> =>
            /\ nphase \in {"constructed", "stopped"}
            /\ ~_valid
            /\ calls = <<>>
            /\ DOMAIN endpoints = {})
    /\ [][nphase' = "stopped" =>
            /\ _tasks' = _tasks
            /\ creates' = creates
            /\ registry' = registry]_vars

C13_Witness ==
    /\ nphase = "stopped"
    /\ _errors # <<>>
    /\ Len(_config.tasks.items) = 2
    /\ _tasks = <<>>
    /\ calls = <<>>
    /\ DOMAIN endpoints = {}

\* name is there, tasks is a mapping and every descriptor is well formed
AllWellFormed ==
    /\ _config.name # None
    /\ _config.tasks.kind = "dict"
    /\ \A i \in DOMAIN _config.tasks.items :
           /\ _config.tasks.items[i].descriptor.type \in {"request", "cron"}
           /\ OtherwiseWellFormed(_config.tasks.items[i].descriptor)

\* one create_tasks call made one Task per entry of the mapping, in its
\* order and named by its key, with its endpoint under the given node name
OneTaskPerEntry(n) ==
    /\ Len(_tasks) = Len(_config.tasks.items)
    /\ \A i \in DOMAIN _tasks :
           /\ _tasks[i].name = _config.tasks.items[i].name
           /\ task_endpoint(_tasks[i]) = "/task/" \o n \o "/" \o _tasks[i].name

\* C14 as stated: a configuration whose tasks are all well formed validates
\* with an empty error list, create_tasks() then yields one Task per entry of
\* the mapping in mapping order, each named by its key, and the endpoint of
\* task t1 is /task/n/t1 for n the name key of the configuration.
C14_EndpointFromConfigName ==
    AllWellFormed =>
        /\ Verified => (_errors = <<>> /\ _valid)
        /\ creates = 1 => OneTaskPerEntry(_config.name)

\* C14, amended: as above, but n is the name the node was constructed with
\* (task.node.name), whatever the name key of the configuration says.
C14_EndpointFromNodeName ==
    AllWellFormed =>
        /\ Verified => (_errors = <<>> /\ _valid)
        /\ creates = 1 => OneTaskPerEntry(nname)

C14_Witness ==
    /\ verifies = 1
    /\ creates = 1
    /\ nname = "n2"
    /\ _config = Config("n1", TasksValue("dict", TRUE,
                     <<Entry("t2", WellFormed(kCron)), Entry("t1", WellFormed(kRequest))>>))
    /\ _errors = <<>>
    /\ Len(_tasks) = 2
    /\ _tasks[1].name = "t2"
    /\ task_endpoint(_tasks[2]) = "/task/n2/t1"

\* C15: a Task's endpoint is always /task/{node-name}/{task-name}, for the
\* Tasks the node holds and for those it has exposed; reading it again gives
\* the same value; two Tasks of one node with different names have different
\* endpoints.
C15_EndpointDerived ==
    /\ [](/\ \A i \in DOMAIN _tasks :
                task_endpoint(_tasks[i])
                    = "/task/" \o _tasks[i].node \o "/" \o _tasks[i].name
          /\ \A e \in DOMAIN endpoints :
                e = "/task/" \o endpoints[e].node \o "/" \o endpoints[e].name
          /\ \A i, j \in DOMAIN _tasks :
                (_tasks[i].node = _tasks[j].node /\ _tasks[i].name # _tasks[j].name)
                    => task_endpoint(_tasks[i]) # task_endpoint(_tasks[j]))
    /\ [][\A i \in DOMAIN _tasks :
            /\ i \in DOMAIN _tasks'
            /\ task_endpoint(_tasks[i])' = task_endpoint(_tasks[i])]_vars

C15_Witness ==
    /\ Len(_tasks) = 2
    /\ task_endpoint(_tasks[1]) = "/task/n1/t1"
    /\ task_endpoint(_tasks[2]) = "/task/n1/t2"
    /\ DOMAIN endpoints = {"/task/n1/t1", "/task/n1/t2"}

IsDeregister(c) == c.op = "deregister"
IsRegister(c) == c.op = "register"

\* on_shutdown has been called and has ended, by returning or by raising
ShutdownEnded ==
    \/ nphase = "down"
    \/ nphase = "crashed" /\ SelectSeq(calls, IsDeregister) # <<>>

\* C16 as stated: on_shutdown() issues one deregistration call for every Task
\* the node owns, in order, and a failure of the call for one Task does not
\* prevent the calls for the remaining Tasks.
C16_ShutdownBestEffort ==
    ShutdownEnded =>
        /\ Len(SelectSeq(calls, IsDeregister)) = Len(_tasks)
        /\ \A k \in DOMAIN _tasks :
               SelectSeq(calls, IsDeregister)[k].task = _tasks[k].name

\* every call made so far was delivered to and handled by the coordinator
AllDelivered == \A k \in DOMAIN calls : calls[k].raised = "none"

\* the table holds no row of a Task the node owns, and of the node's rows
\* only what a former run left behind for a task the node does not own
NodeRowsGone ==
    /\ \A k \in DOMAIN _tasks : Rows(registry, nname, _tasks[k].name) = {}
    /\ {r \in registry : r.node = nname} \subseteq {StaleRow}

C18_FeatureRequired ==
    /\ [](~feature =>
            /\ nphase \in {"none", "failed"}
            /\ nphase = "failed" => nraised = "EnvironmentError"
            /\ nname = None
            /\ _config = NoConfig
            /\ _tasks = <<>>
            /\ _errors = <<>>
            /\ verifies = 0
            /\ creates = 0
            /\ calls = <<>>
            /\ DOMAIN endpoints = {})
    /\ [][~feature => registry' = registry]_vars

C18_Witness ==
    /\ ~feature
    /\ nphase = "failed"
    /\ nraised = "EnvironmentError"
    /\ _config = NoConfig

\* C19 as stated: whenever the tasks value is present but is not a mapping (a
\* list, a string, a number, empty and falsy ones included), one verify_config
\* call reports a single error naming the type found and the node is invalid.
C19_NonMappingRejected ==
    (verifies = 1 /\ _config.tasks.kind \in {"list", "str", "int"}) =>
        /\ Cardinality({j \in DOMAIN _errors : _errors[j].kind = "tasks_not_map"}) = 1
        /\ \E j \in DOMAIN _errors :
               _errors[j] = Err("tasks_not_map", "", _config.tasks.kind)
        /\ ~_valid

\* C20: additional_registration registers the node's Tasks one after another
\* in the order of the configuration: the k-th register call is that of the
\* k-th Task, every call but the last has returned, and once a register call
\* has raised no further call is made.
C20_RegisterSequential ==
    /\ [](/\ Len(SelectSeq(calls, IsRegister)) <= Len(_tasks)
          /\ \A k \in DOMAIN SelectSeq(calls, IsRegister) :
                /\ SelectSeq(calls, IsRegister)[k].task = _tasks[k].name
                /\ k < Len(SelectSeq(calls, IsRegister))
                       => SelectSeq(calls, IsRegister)[k].raised = "none")
    /\ [][(/\ calls # <<>>
           /\ calls[Len(calls)].op = "register"
           /\ calls[Len(calls)].raised # "none") => calls' = calls]_vars

C20_Witness ==
    /\ nphase = "crashed"
    /\ Len(_tasks) = 2
    /\ calls = <<Call("register", "t1", "none"), Call("register", "t2", "ConnectionError")>>

\* how many descriptor rules a descriptor breaks: its type, its commands, its
\* help, and its parameters (once when they are no list, else once for each
\* element that is no list)
Violations(d) ==
    (IF d.type \in {"request", "cron"} THEN 0 ELSE 1)
    + (IF d.commands THEN 0 ELSE 1)
    + (IF d.help = NotAString THEN 1 ELSE 0)
    + (IF d.parameters.kind = "absent" THEN 0
       ELSE IF d.parameters.kind # "list" THEN 1
       ELSE Cardinality({k \in DOMAIN d.parameters.items : d.parameters.items[k] # "list"}))

\* the violations of the first n entries of the tasks mapping
RECURSIVE ViolationsUpTo(_)
ViolationsUpTo(n) ==
    IF n = 0 THEN 0
    ELSE Violations(_config.tasks.items[n].descriptor) + ViolationsUpTo(n - 1)

\* C21: validation is not fail-fast: one verify_config call on a configuration
\* whose tasks value is a mapping reports every violation of the descriptor
\* rules, for every task: a task that breaks k rules has k errors about it,
\* and the list holds one error for each violation and each missing key.
C21_ReportsEveryViolation ==
    (verifies = 1 /\ _config.tasks.kind = "dict") =>
        /\ \A i \in DOMAIN _config.tasks.items :
               Cardinality(ErrorsAbout(_config.tasks.items[i].name))
                   = Violations(_config.tasks.items[i].descriptor)
        /\ Len(_errors) = ViolationsUpTo(Len(_config.tasks.items))
                          + (IF _config.name = None THEN 1 ELSE 0)

C21_Witness ==
    /\ verifies = 1
    /\ Len(_config.tasks.items) = 2
    /\ Violations(_config.tasks.items[1].descriptor) = 5
    /\ Violations(_config.tasks.items[2].descriptor) = 1
    /\ Len(_errors) = 6

\* the errors one verify_config call finds in the configuration, counted
ErrorsPerCall ==
    (IF _config.name = None THEN 1 ELSE 0)
    + (IF _config.tasks.kind = "NoneType" THEN 1 ELSE 0)
    + (IF ~_config.tasks.truthy THEN 0
       ELSE IF _config.tasks.kind # "dict" THEN 1
       ELSE ViolationsUpTo(Len(_config.tasks.items)))

\* C22: verify_config may be called any number of times on a node: the valid
\* flag after k calls is the one after the first call (false exactly when a
\* call finds an error), and the error list is appended to, not reset: after
\* k calls on a configuration that gives e errors per call it holds k*e
\* entries, each call's block repeating the first; the warning list stays as
\* it is.
C22_RepeatedValidation ==
    Verified =>
        /\ _valid = (ErrorsPerCall = 0)
        /\ Len(_errors) = verifies * ErrorsPerCall
        /\ \A j \in DOMAIN _errors :
               j > ErrorsPerCall => _errors[j] = _errors[j - ErrorsPerCall]
        /\ _warnings = <<>>

C22_Witness ==
    /\ verifies = 2
    /\ ErrorsPerCall = 3
    /\ Len(_errors) = 6
    /\ ~_valid

\* C23: the valid flag is monotone: it is true when the node has been
\* constructed and not yet validated, and once it is false no operation of
\* the node sets it back to true.
C23_ValidMonotone ==
    /\ []((nphase = "constructed" /\ verifies = 0) => _valid)
    /\ [][(nphase # "none" /\ ~_valid) => ~_valid']_vars

C23_Witness ==
    /\ verifies = 2
    /\ nphase = "stopped"
    /\ ~_valid

\* C24: for every Task the node puts its handler under the Task's endpoint
\* before it sends the Task's register call: when the call of the idx-th Task
\* is about to be sent its endpoint is exposed and only the calls of the
\* Tasks before it have been made; every register call made, and every
\* record the coordinator holds from a register call of this node, is for an
\* endpoint the node has exposed, under which it holds the Task of that name.
C24_ExposedBeforeRegistered ==
    /\ nphase = "exposed" =>
           /\ ("/task/" \o nname \o "/" \o _tasks[idx].name) \in DOMAIN endpoints
           /\ Len(SelectSeq(calls, IsRegister)) = idx - 1
    /\ \A k \in DOMAIN calls :
           calls[k].op = "register" =>
               /\ ("/task/" \o nname \o "/" \o calls[k].task) \in DOMAIN endpoints
               /\ endpoints["/task/" \o nname \o "/" \o calls[k].task].name = calls[k].task
    /\ \A r \in registry :
           (r.node = nname /\ \E k \in DOMAIN calls : calls[k] = Call("register", r.name, "none"))
               => r.endpoint \in DOMAIN endpoints

C24_Witness ==
    /\ nphase = "exposed"
    /\ idx = 2
    /\ DOMAIN endpoints = {"/task/n1/t1", "/task/n1/t2"}
    /\ calls = <<Call("register", "t1", "none")>>
    /\ {r.name : r \in registry} = {"t1"}

---------------------------------------------------------------------------
(* Properties of Spec: what a deregistration leaves behind.                *)

\* the table holds a record of the pair
HasRecord(reg, node, name) == \E r \in reg : r.node = node /\ r.name = name

\* C25: once DeregisterTask for (n, t) has completed, and until a later
\* RegisterTask for (n, t) completes, every ExecuteTask for (n, t) fails and
\* queues no forward; the pair has no record in between, a record of a pair
\* appears only through a RegisterTask of that pair that returns, and the
\* queue grows only by the forward of an ExecuteTask whose pair has a record
\* at the lookup.
C25_NoForwardAfterDeregister ==
    /\ []((/\ last.op = "execute_task"
           /\ last.payload.dict
           /\ <<last.payload.node, last.payload.name>> \in gone)
          => /\ last.result # "ok"
             /\ last.response = NoResponse
             /\ last.fwd = <<>>
             /\ last.queued = 0)
    /\ [](\A p \in gone : ~HasRecord(registry, p[1], p[2]))
    /\ [][\A n \in NodeNames, t \in TaskNames :
            (~HasRecord(registry, n, t) /\ HasRecord(registry', n, t))
                => /\ last'.op = "register_task"
                   /\ last'.payload.status # NODE_TERM
                   /\ last'.payload.node = n /\ last'.payload.name = t
                   /\ last'.result = "ok"]_vars
    /\ [][Len(queue') > Len(queue)
            => /\ last'.op = "execute_task"
               /\ HasRecord(registry, last'.payload.node, last'.payload.name)]_vars

\* an execute for a pair that was registered and then deregistered, while
\* the node's other task still has its record
C25_Witness ==
    /\ last.op = "execute_task"
    /\ last.payload = ExecuteBody("n1", "t1", "{}")
    /\ <<"n1", "t1">> \in gone
    /\ HasRecord(registry, "n1", "t2")
    /\ last.result = "TargetNotFound"
    /\ last.queued = 0

\* C26: DeregisterTask for (n, t) deletes at most the one record of (n, t)
\* and leaves the records of every other pair as they were; ExecuteTask,
\* whether it returns or raises, leaves the whole set of records as it was.
C26_RegistryFrame ==
    /\ TookTerminationPath =>
           /\ registry \subseteq pre
           /\ Cardinality(pre \ registry) <= 1
           /\ \A r \in pre \ registry :
                  r.node = last.payload.node /\ r.name = last.payload.name
    /\ last.op = "execute_task" => registry = pre

\* a deregistration that deleted the record of its pair and left the record
\* of the node's other task
C26_Witness ==
    /\ TookTerminationPath
    /\ last.payload = DeregisterBody("n1", "t1")
    /\ Cardinality(pre) = 2
    /\ Cardinality(registry) = 1
    /\ HasRecord(registry, "n1", "t2")

====
